---- MODULE Spec2Model ----
(***************************************************************************)
(* Sensor dashboard pipeline: acquisition (sensor_data.py,                 *)
(* sensor_data_integration.py), forecasting (ml_model.py) and persistence  *)
(* (firebase_config.py).                                                   *)
(***************************************************************************)
EXTENDS Integers, Sequences, FiniteSets, TLC

(***************************************************************************)
(* Bounds of the model.                                                    *)
(***************************************************************************)
MaxRows == 3
MaxRetries == 3
MaxBatch == 3
MaxLen == 3
MaxMissing == 1
MaxHorizon == 3
MaxDays == 3
MaxPayload == 3
MaxRefreshes == 2

(***************************************************************************)
(* Program constants.                                                      *)
(***************************************************************************)
PaceDelayMs == 500
BackoffUnitMs == 2000
DefaultDays == 100
HistoryDays == 100
DaysAhead == 7

VARIABLES
    \* ---- firebase_config.save_data_to_firebase ----
    db,               \* the db argument: "None" or "client"
    data,             \* the caller's data argument
    max_retries,      \* argument
    batch_size,       \* argument
    data_dict,        \* local: the list of row dictionaries
    retry,            \* loop variable of the retry loop
    batch_num,        \* loop variable of the batch loop
    pc_save,          \* "call", "batches", "done"
    ret,              \* "pending", "True", "False", "None"
    store,            \* the collection: committed batches, in commit order
    commits,          \* history: every batch.commit() call and its outcome
    sleeps,           \* history: every time.sleep() call, in milliseconds
    batches_created,  \* history: number of db.batch() calls
    data_in,          \* history: the rows of data as the caller passed them
    \* ---- ml_model.PredictionModel and the series it is given ----
    df,               \* the series held by the caller (app.py: df)
    models,           \* PredictionModel.models: metric -> fitted model
    ml_op,            \* the last finished call of a PredictionModel method
    ml_arg,           \* its days_ahead argument (0 for the other methods)
    ml_ret,           \* its outcome: a frame, None, or a raised error
    rerun,            \* history: the last call repeated the call before it
                      \* (predict_next_values, same days_ahead)
    runs_agree,       \* history: every repeated call returned what the
                      \* call before it returned
    \* ---- SensorDataManager (sensor_data.py, sensor_data_integration.py) ----
    sdm_module,       \* which of the two modules the manager comes from
    data_source,      \* SensorDataManager.data_source
    api_endpoint,     \* SENSOR_API_ENDPOINT is set (sensor_data.py only)
    api_key,          \* SENSOR_API_KEY is set
    api_type,         \* SENSOR_API_TYPE (sensor_data_integration.py only)
    channel_id,       \* a ThingSpeak channel id is configured
    days,             \* argument of get_sensor_data
    now,              \* datetime.now(), as a day number
    acq_pc,           \* "call", "done", or "blocked" inside a request
    acq_ret,          \* what get_sensor_data returned or raised
    fetched,          \* history: the rows the backend or the file delivered
    log,              \* history: the messages printed
    \* ---- repeated calls of _generate_simulated_data ----
    sim_ret,          \* what the last call returned
    sim_at,           \* history: the clock reading at the last call
    sim_prev,         \* history: what the call before it returned
    sim_prev_at,      \* history: the clock reading at the call before it
    \* ---- app.py: the module's globals and the position of its pipeline ----
    sensor_manager,   \* app.py:18: its data_source and its configuration
    prediction_model, \* app.py:19: PredictionModel.models of the one instance
    firebase_db,      \* app.py:20: TRUE for a client, FALSE for None
    app_df,           \* app.py:26, 386: the global df
    prediction_df,    \* app.py:32, 392: the global prediction_df
    clock,            \* datetime.now()
    cycle,            \* "load" (module initialisation) or "refresh"
    app_pc,           \* the statement the cycle is at, or how it ended
    refresh_ret,      \* what refresh_data returned or raised
    refreshes,        \* number of refresh_data calls so far
    steps             \* history: the steps of the cycle, each with the
                      \* series it produced or was given

saveVars == <<db, data, max_retries, batch_size, data_dict, retry, batch_num,
              pc_save, ret, store, commits, sleeps, batches_created, data_in>>

mlVars == <<df, models, ml_op, ml_arg, ml_ret, rerun, runs_agree>>

acqVars == <<sdm_module, data_source, api_endpoint, api_key, api_type, channel_id,
             days, now, acq_pc, acq_ret, fetched, log>>

simVars == <<sim_ret, sim_at, sim_prev, sim_prev_at>>

appVars == <<sensor_manager, prediction_model, firebase_db, app_df, prediction_df,
             clock, cycle, app_pc, refresh_ret, refreshes, steps>>

vars == <<saveVars, mlVars, acqVars, simVars, appVars>>

(***************************************************************************)
(* Helpers.                                                                *)
(***************************************************************************)
Min(a, b) == IF a <= b THEN a ELSE b

Range(s) == {s[i] : i \in DOMAIN s}

RECURSIVE CountIn(_, _)
\* number of elements x of sequence s with P-tag x = v (used on id sequences)
CountIn(s, v) ==
    IF s = <<>> THEN 0
    ELSE (IF Head(s) = v THEN 1 ELSE 0) + CountIn(Tail(s), v)

RECURSIVE Flatten(_)
Flatten(ss) == IF ss = <<>> THEN <<>> ELSE Head(ss) \o Flatten(Tail(ss))

(***************************************************************************)
(* Rows handed to the persistence writer.  A row is a dictionary; the      *)
(* writer reads only its 'date' and 'timestamp' keys.  id is the row's     *)
(* position in the input and stands for the remaining fields.              *)
(***************************************************************************)
RowShapes == {"date_only", "timestamp_only", "both", "neither"}

DateOfRow(i) == 10 + i
StampOfRow(i) == 50 + i

MkRow(i, shape) ==
    [id        |-> i,
     has_date  |-> shape \in {"date_only", "both"},
     date      |-> IF shape \in {"date_only", "both"} THEN DateOfRow(i) ELSE 0,
     has_ts    |-> shape \in {"timestamp_only", "both"},
     timestamp |-> IF shape \in {"timestamp_only", "both"} THEN StampOfRow(i) ELSE 0]

MkRows(n, shape) == [i \in 1..n |-> MkRow(i - 1, shape)]

\* firebase_config.py:37-40: a DataFrame is converted to a fresh list of
\* records, any other object is used as it is (the caller's own list, or
\* None, which has no rows).
ToDataDict(d) == d.rows

\* the emptiness test left out
NoData_Skipped(dd) == FALSE

\* firebase_config.py:42
NoData(dd) == Len(dd) = 0

\* the last, partial batch left out
TotalBatches_Floor(n, b) == n \div b

\* firebase_config.py:52
TotalBatches(n, b) == (n + b - 1) \div b

\* firebase_config.py:55
StartIdx(k, b) == k * b

\* the slice end taken one short
EndIdx_Short(k, b, n) == Min(StartIdx(k, b) + b, n) - 1

\* firebase_config.py:56
EndIdx(k, b, n) == Min(StartIdx(k, b) + b, n)

\* no timestamp added
Stamp_Never(item) == item

\* firebase_config.py:65-66
Stamp(item) ==
    IF ~item.has_ts /\ item.has_date
    THEN [item EXCEPT !.has_ts = TRUE, !.timestamp = item.date]
    ELSE item

\* firebase_config.py:57: data_dict[start_idx:end_idx] (0-based, end exclusive)
BatchItems(dd, k, b) ==
    SubSeq(dd, StartIdx(k, b) + 1, EndIdx(k, b, Len(dd)))

\* firebase_config.py:63-66: the items of the batch are dictionaries of
\* data_dict itself, so stamping them changes data_dict
StampBatch(dd, k, b) ==
    [i \in DOMAIN dd |->
        IF i > StartIdx(k, b) /\ i <= EndIdx(k, b, Len(dd))
        THEN Stamp(dd[i]) ELSE dd[i]]

\* the bound of the last attempt off by one
MoreRetries_OffByOne(r, mr) == r < mr

\* firebase_config.py:85
MoreRetries(r, mr) == r < mr - 1

\* the same wait after every failed attempt
WaitTime_Flat(r) == BackoffUnitMs

\* firebase_config.py:86
WaitTime(r) == (r + 1) * BackoffUnitMs

\* firebase_config.py:77
PaceAfter(k, total) == k < total - 1

(***************************************************************************)
(* ml_model.py: series, feature derivation, training, forecasting.         *)
(*                                                                         *)
(* A series is a data frame with a 'date' column and a column for each of  *)
(* the metrics in cols.  Dates are day numbers; rows follow each other by  *)
(* one day.  A cell holds an observation or NaN (a missing value).  The    *)
(* fitted pipelines are kept uninterpreted: a prediction is the term       *)
(* formed by the model and the features it was applied to.                 *)
(***************************************************************************)
\* ml_model.py:13
Metrics == <<"temperature", "humidity", "pressure">>

MetricSet == Range(Metrics)

NaN == [kind |-> "nan"]

None == [kind |-> "None"]

Obs(m, d) == [kind |-> "obs", metric |-> m, date |-> d]

StartDates == {58, 363}

\* pandas .dt.dayofyear, .dt.month, .dt.day, of a calendar without leap years
CumDays == <<0, 31, 59, 90, 120, 151, 181, 212, 243, 273, 304, 334, 365>>

DayOfYear(d) == ((d - 1) % 365) + 1

MonthOf(d) == CHOOSE k \in 1..12 : CumDays[k] < DayOfYear(d) /\ DayOfYear(d) <= CumDays[k + 1]

DayOfMonth(d) == DayOfYear(d) - CumDays[MonthOf(d)]

MissingSets(n, cols) ==
    {ms \in SUBSET ((1..n) \X cols) : Cardinality(ms) <= MaxMissing}

MkSeries(n, cols, start, missing) ==
    [cols |-> cols,
     rows |-> [i \in 1..n |->
                 [date |-> start + i - 1,
                  val  |-> [m \in cols |->
                              IF <<i, m>> \in missing THEN NaN
                              ELSE Obs(m, start + i - 1)]]]]

SeriesSet ==
    UNION {UNION {UNION {{MkSeries(n, c, st, ms) : ms \in MissingSets(n, c)}
                         : st \in StartDates}
                  : c \in SUBSET MetricSet}
           : n \in 0..MaxLen}

\* the column taken without the shift
Shift1_Unshifted(d, m, i) == IF i = 1 THEN NaN ELSE d.rows[i].val[m]

\* ml_model.py:28: df[metric].shift(1), at (1-based) row i
Shift1(d, m, i) == IF i = 1 THEN NaN ELSE d.rows[i - 1].val[m]

\* ml_model.py:18-28: the copy of the frame with the calendar and lag columns
\* (idx is the row's index label, kept by dropna)
WithFeatures(d) ==
    [i \in DOMAIN d.rows |->
        [idx         |-> i - 1,
         date        |-> d.rows[i].date,
         day_of_year |-> DayOfYear(d.rows[i].date),
         month       |-> MonthOf(d.rows[i].date),
         day         |-> DayOfMonth(d.rows[i].date),
         val         |-> d.rows[i].val,
         lag         |-> [m \in d.cols |-> Shift1(d, m, i)]]]

\* only the lag columns tested
NoNaN_LagOnly(r) == \A m \in DOMAIN r.lag : r.lag[m] # NaN

NoNaN(r) ==
    /\ \A m \in DOMAIN r.val : r.val[m] # NaN
    /\ \A m \in DOMAIN r.lag : r.lag[m] # NaN

\* ml_model.py:31: df.dropna()
DropNa(rows) == SelectSeq(rows, NoNaN)

\* ml_model.py:15-33
Preprocess(d) == [kind |-> "frame", cols |-> d.cols, rows |-> DropNa(WithFeatures(d))]

\* ml_model.py:46: train_test_split(X, y, test_size=0.2) raises ValueError
\* when the train set would be empty, that is on fewer than 2 samples
TrainRaises(p) == p.cols # {} /\ Len(p.rows) < 2

\* ml_model.py:49-55: the pipeline fitted for metric m on the series held;
\* stale records that the series it was fitted on has been replaced since
Fit(m) == [metric |-> m, stale |-> FALSE]

\* ml_model.py:39-55
TrainedModels(ms, p) ==
    [m \in (DOMAIN ms) \cup p.cols |-> IF m \in p.cols THEN Fit(m) ELSE ms[m]]

\* the models held, once the series they were fitted on is replaced
Aged(ms) == [m \in DOMAIN ms |-> [ms[m] EXCEPT !.stale = TRUE]]

\* ml_model.py:93: self.models[metric].predict(features)[0]
PredictOne(model, features) ==
    [kind |-> "pred", model |-> model, features |-> features]

\* ml_model.py:73: df['date'].max()
MaxDate(d) ==
    CHOOSE x \in {d.rows[i].date : i \in DOMAIN d.rows} :
        \A i \in DOMAIN d.rows : d.rows[i].date <= x

\* the range started at last_date itself
FutureDates_FromLast(last_date, h) == [i \in 1..h |-> last_date + i - 1]

\* ml_model.py:74: pd.date_range(start=last_date + 1 day, periods=days_ahead)
FutureDates(last_date, h) == [i \in 1..h |-> last_date + i]

\* ml_model.py:77-80
NewFutureDf(dates) ==
    [date        |-> dates,
     day_of_year |-> [i \in DOMAIN dates |-> DayOfYear(dates[i])],
     month       |-> [i \in DOMAIN dates |-> MonthOf(dates[i])],
     day         |-> [i \in DOMAIN dates |-> DayOfMonth(dates[i])],
     lag         |-> [m \in {} |-> <<>>],
     val         |-> [m \in {} |-> <<>>]]

\* ml_model.py:85: the lag column, every row set to the last value of the
\* metric in the preprocessed frame
SeedLag(fd, p, m) ==
    [fd EXCEPT !.lag = [x \in (DOMAIN fd.lag) \cup {m} |->
                          IF x = m
                          THEN [i \in DOMAIN fd.date |-> p.rows[Len(p.rows)].val[m]]
                          ELSE fd.lag[x]]]

\* ml_model.py:94: future_df.loc[i, metric] = prediction (the first
\* assignment creates the column, NaN in the other rows)
SetVal(fd, m, i, prediction) ==
    [fd EXCEPT !.val = [x \in (DOMAIN fd.val) \cup {m} |->
                          IF x = m
                          THEN [j \in DOMAIN fd.date |->
                                  IF j = i THEN prediction
                                  ELSE IF m \in DOMAIN fd.val THEN fd.val[m][j] ELSE NaN]
                          ELSE fd.val[x]]]

\* the lag of the next row left as it was seeded
SetNextLag_Never(fd, m, i, prediction) == fd

\* ml_model.py:97-98
SetNextLag(fd, m, i, prediction) ==
    IF i < Len(fd.date)
    THEN [fd EXCEPT !.lag[m][i + 1] = prediction]
    ELSE fd

RECURSIVE ForecastLoop(_, _, _, _)
\* ml_model.py:88-98: rows i .. len(future_df) of the loop (i is 1-based)
ForecastLoop(fd, model, m, i) ==
    IF i > Len(fd.date) THEN fd
    ELSE LET features   == [day_of_year |-> fd.day_of_year[i],
                            month       |-> fd.month[i],
                            day         |-> fd.day[i],
                            lag1        |-> fd.lag[m][i]]
             prediction == PredictOne(model, features)
         IN  ForecastLoop(SetNextLag(SetVal(fd, m, i, prediction), m, i, prediction),
                          model, m, i + 1)

RECURSIVE ForecastMetrics(_, _, _, _)
\* ml_model.py:83-98: the metrics k .. 3, in the order of self.metrics
ForecastMetrics(fd, p, ms, k) ==
    IF k > Len(Metrics) THEN fd
    ELSE LET m == Metrics[k]
         IN  IF m \in p.cols /\ m \in DOMAIN ms
             THEN ForecastMetrics(ForecastLoop(SeedLag(fd, p, m), ms[m], m, 1), p, ms, k + 1)
             ELSE ForecastMetrics(fd, p, ms, k + 1)

\* ml_model.py:68-98: future_df at the end of predict_next_values
FutureDf(d, ms, h) ==
    ForecastMetrics(NewFutureDf(FutureDates(MaxDate(d), h)), Preprocess(d), ms, 1)

\* ml_model.py:101
ResultDf(fd) ==
    [kind |-> "frame",
     cols |-> DOMAIN fd.val,
     rows |-> [i \in DOMAIN fd.date |->
                 [date |-> fd.date[i], val |-> [m \in DOMAIN fd.val |-> fd.val[m][i]]]]]

\* the test for trained models left out
NotTrained_Never(ms) == FALSE

\* ml_model.py:63-71: the two early returns of None
NotTrained(ms) == DOMAIN ms = {}

NothingToPredictFrom(d) == Len(Preprocess(d).rows) = 0

\* ml_model.py:61-102
PredictNextValues(d, ms, h) ==
    IF NotTrained(ms) \/ NothingToPredictFrom(d) THEN None
    ELSE ResultDf(FutureDf(d, ms, h))

(***************************************************************************)
(* SensorDataManager.  An acquired series is a frame of rows with a date;  *)
(* origin records which connector produced it.  A function that may raise  *)
(* yields [out |-> frame or raised error, log |-> messages printed,        *)
(* fetched |-> Got(rows delivered by the backend) or None].                *)
(***************************************************************************)
Sources == {"simulated", "api", "file", "firebase", "other"}

ApiTypes == {"openweathermap", "visualcrossing", "thingspeak", "other"}

\* clock readings: a day number and a time of day
NowDates == {[day |-> d, time |-> t] : d \in {200, 308}, t \in {0, 1}}

\* humidity values a backend or a data file delivers, in thousandths
PayloadHumidity == {55000, 120000}

\* random.uniform draws of one row of the OpenWeatherMap connector
\* (sensor_data_integration.py:142-144), in thousandths: the two extremes
Variations ==
    {[temperature |-> 0 - 3000, humidity |-> 0 - 10000, pressure |-> 0 - 5000],
     [temperature |-> 3000, humidity |-> 10000, pressure |-> 5000]}

Raised == [kind |-> "raise"]

\* the call has not returned: requests.get waits for an answer
Blocked == [kind |-> "blocked"]

Frame(origin, rows) == [kind |-> "frame", origin |-> origin, rows |-> rows]

\* the rows a backend or a file delivered
Got(rows) == [kind |-> "rows", rows |-> rows]

Yield(out, msgs, got) == [out |-> out, log |-> msgs, fetched |-> got]

\* what requests.get() can do: raise, wait for an answer that never comes
\* (the requests carry no timeout), or answer with a status and a body;
\* a body is not JSON, JSON without the expected key, or the expected
\* payload (n rows, in ascending or descending date order)
Responses ==
    {[kind |-> "exception"], [kind |-> "no_answer"]}
    \cup {[kind |-> "response", status |-> 500, body |-> "not_json", n |-> 0, order |-> "asc",
           humidity |-> 0]}
    \cup {[kind |-> "response", status |-> 200, body |-> b, n |-> 0, order |-> "asc",
           humidity |-> 0]
            : b \in {"not_json", "no_key"}}
    \cup {[kind |-> "response", status |-> 200, body |-> "ok", n |-> n, order |-> o,
           humidity |-> h]
            : n \in 0..MaxPayload, o \in {"asc", "desc"}, h \in PayloadHumidity}

\* the data file: missing, unreadable (read_csv or the date conversion
\* raises), or a table of n rows
Files ==
    {[kind |-> "missing", n |-> 0, order |-> "asc", humidity |-> 0],
     [kind |-> "unreadable", n |-> 0, order |-> "asc", humidity |-> 0]}
    \cup {[kind |-> "table", n |-> n, order |-> o, humidity |-> h]
            : n \in 0..MaxPayload, o \in {"asc", "desc"}, h \in PayloadHumidity}

\* a reading; values in thousandths of the unit
Reading(date, time, t, h, p) ==
    [date |-> date, time |-> time, temperature |-> t, humidity |-> h, pressure |-> p]

\* n rows of consecutive days ending today, in the order delivered, with the
\* values as delivered
PayloadRows(n, order, today, h) ==
    [i \in 1..n |->
        Reading(IF order = "asc" THEN today.day - n + i ELSE today.day - i + 1,
                0, 20000, h, 1013000)]

RECURSIVE InsertByDate(_, _)
InsertByDate(sorted, r) ==
    IF sorted = <<>> THEN <<r>>
    ELSE IF Head(sorted).date <= r.date
         THEN <<Head(sorted)>> \o InsertByDate(Tail(sorted), r)
         ELSE <<r>> \o sorted

RECURSIVE SortByDate(_)
\* df.sort_values('date')
SortByDate(rows) ==
    IF rows = <<>> THEN <<>>
    ELSE InsertByDate(SortByDate(SubSeq(rows, 1, Len(rows) - 1)), rows[Len(rows)])

\* a try block whose except clause returns the handler's value, without it
TryExcept_Missing(r, handler) == r

\* try: ... except Exception: <handler>
TryExcept(r, handler) ==
    IF r.out.kind = "raise"
    THEN Yield(handler.out, r.log \o handler.log, r.fetched)
    ELSE r

\* sensor_data.py:38: 10 * sin(2 * pi * day_of_year / 365), in thousandths,
\* for day_of_year = 1 .. 365
AnnualCycle ==
    <<
     172, 344, 516, 688, 860, 1031, 1202, 1373, 1543, 1713, 1882, 2051,
     2219, 2387, 2554, 2720, 2885, 3049, 3213, 3375, 3537, 3697, 3857,
     4015, 4172, 4328, 4482, 4636, 4787, 4938, 5087, 5234, 5380, 5524,
     5667, 5808, 5947, 6085, 6220, 6354, 6486, 6616, 6744, 6871, 6995,
     7117, 7236, 7354, 7470, 7583, 7694, 7803, 7909, 8014, 8115, 8215,
     8312, 8406, 8498, 8588, 8675, 8759, 8841, 8920, 8996, 9070, 9141,
     9210, 9275, 9338, 9399, 9456, 9511, 9562, 9611, 9657, 9701, 9741,
     9778, 9813, 9845, 9873, 9899, 9922, 9942, 9959, 9973, 9984, 9993,
     9998, 10000, 9999, 9995, 9989, 9979, 9967, 9951, 9933, 9911, 9887,
     9859, 9829, 9796, 9760, 9721, 9679, 9635, 9587, 9537, 9484, 9428,
     9369, 9307, 9243, 9176, 9106, 9034, 8958, 8881, 8800, 8717, 8631,
     8543, 8452, 8359, 8264, 8165, 8065, 7962, 7856, 7749, 7639, 7527,
     7412, 7296, 7177, 7056, 6933, 6808, 6681, 6552, 6421, 6288, 6153,
     6016, 5878, 5738, 5596, 5452, 5307, 5161, 5012, 4863, 4712, 4559,
     4405, 4250, 4094, 3936, 3777, 3617, 3456, 3294, 3131, 2967, 2802,
     2637, 2470, 2303, 2135, 1967, 1798, 1628, 1458, 1287, 1117, 945, 774,
     602, 430, 258, 86, -86, -258, -430, -602, -774, -945, -1117, -1287,
     -1458, -1628, -1798, -1967, -2135, -2303, -2470, -2637, -2802, -2967,
     -3131, -3294, -3456, -3617, -3777, -3936, -4094, -4250, -4405, -4559,
     -4712, -4863, -5012, -5161, -5307, -5452, -5596, -5738, -5878, -6016,
     -6153, -6288, -6421, -6552, -6681, -6808, -6933, -7056, -7177, -7296,
     -7412, -7527, -7639, -7749, -7856, -7962, -8065, -8165, -8264, -8359,
     -8452, -8543, -8631, -8717, -8800, -8881, -8958, -9034, -9106, -9176,
     -9243, -9307, -9369, -9428, -9484, -9537, -9587, -9635, -9679, -9721,
     -9760, -9796, -9829, -9859, -9887, -9911, -9933, -9951, -9967, -9979,
     -9989, -9995, -9999, -10000, -9998, -9993, -9984, -9973, -9959, -9942,
     -9922, -9899, -9873, -9845, -9813, -9778, -9741, -9701, -9657, -9611,
     -9562, -9511, -9456, -9399, -9338, -9275, -9210, -9141, -9070, -8996,
     -8920, -8841, -8759, -8675, -8588, -8498, -8406, -8312, -8215, -8115,
     -8014, -7909, -7803, -7694, -7583, -7470, -7354, -7236, -7117, -6995,
     -6871, -6744, -6616, -6486, -6354, -6220, -6085, -5947, -5808, -5667,
     -5524, -5380, -5234, -5087, -4938, -4787, -4636, -4482, -4328, -4172,
     -4015, -3857, -3697, -3537, -3375, -3213, -3049, -2885, -2720, -2554,
     -2387, -2219, -2051, -1882, -1713, -1543, -1373, -1202, -1031, -860,
     -688, -516, -344, -172, 0
    >>

\* sensor_data.py:41-46: the standard normal deviates numpy draws after
\* np.random.seed(42), in draw order and in thousandths
Normal42 ==
    <<
     497, -138, 648, 1523, -234, -234, 1579, 767, -469, 543, -463, -466,
     242, -1913, -1725, -562, -1013, 314, -908, -1412, 1466, -226, 68,
     -1425, -544, 111, -1151, 376, -601, -292, -602, 1852, -13, -1058, 823,
     -1221, 209, -1960, -1328, 197, 738, 171, -116, -301, -1479, -720,
     -461, 1057, 344, -1763, 324, -385, -677, 612, 1031, 931, -839, -309,
     331, 976, -479, -186, -1106, -1196, 813, 1356, -72, 1004, 362, -645,
     361, 1538, -36, 1565, -2620, 822, 87, -299, 92, -1988, -220, 357,
     1478, -518, -808, -502, 915, 329, -530, 513, 97, 969, -702, -328,
     -392, -1464, 296, 261, 5, -235, -1415, -421, -343, -802, -161, 404,
     1886, 175, 258, -74, -1919, -27, 60, 2463, -192, 302, -35, -1169,
     1143, 752, 791, -909, 1403, -1402, 587, 2190, -991, -566, 100, -503,
     -1551, 69, -1062, 474, -919, 1550, -783, -322, 814, -1231, 227, 1307,
     -1607, 185, 260, 782, -1237, -1320, 522, 297, 250, 346, -680, 232,
     293, -714, 1866, 474, -1191, 657, -975, 787, 1159, -821, 963, 413,
     822, 1897, -245, -754, -890, -816, -77, 341, 277, 827, 13, 1454, -265,
     2720, 626, -857, -1071, 482, -223, 714, 473, -73, -847, -1515, -447,
     856, 214, -1246, 173, 385, -884, 154, 58, -1143, 358, 561, 1083, 1054,
     -1378, -938, 515, 514, 515, 3853, 571, 1136, 954, 651, -315, 759,
     -773, -237, -485, 82, 2315, -1867, 686, -1613, -472, 1089, 64, -1078,
     -715, 680, -730, 216, 46, -652, 2144, 634, -2025, 186, -662, 852,
     -793, -115, 505, 866, -1200, -335, -475, -653, 1765, 405, -1261, 918,
     2122, 1032, -1519, -484, 1267, -708, 444, 775, -927, -60, -3241,
     -1024, -253, -1248, 1632, -1430, -440, 131, 1441, -1436, 1163, 10,
     -982, 462, 199, -600, 70, -385, 114, 662, 1586, -1238, 2133, -1952,
     -152, 588, 281, -623, -208, -493, -589, 850, 357, -693, 900, 307, 813,
     630
    >>

\* sensor_data.py:59-61: for a series of n days, the rows the anomaly mask
\* selects after np.random.seed(42) and the offset np.random.choice adds to
\* the temperature of each, in thousandths, as <<row, offset>>
Anomalies42 ==
    (0 :> {})
    @@ (1 :> {})
    @@ (2 :> {<<1, 10000>>})
    @@ (3 :> {})
    @@ (4 :> {})
    @@ (5 :> {})
    @@ (100 :> {<<22, -10000>>, <<24, -10000>>, <<37, 10000>>, <<39, 10000>>, <<49, 10000>>, <<51, 10000>>, <<54, 10000>>, <<55, 10000>>, <<64, 10000>>, <<71, 10000>>, <<73, 10000>>, <<85, -10000>>, <<87, 10000>>, <<91, 10000>>})

\* sensor_data.py:34: pd.date_range(end=datetime.now(), periods=n, freq='D')
SimDate(n, i, today) == today.day - n + i

\* sensor_data.py:37-38
CycleAt(n, i, today) == AnnualCycle[DayOfYear(SimDate(n, i, today))]

\* sensor_data.py:44, before the anomalies
BaseTemperatureAt(n, i, today) == 25000 + CycleAt(n, i, today) + 3 * Normal42[i]

\* sensor_data.py:59-61
AnomalyAt(n, i) ==
    IF \E a \in Anomalies42[n] : a[1] = i
    THEN (CHOOSE a \in Anomalies42[n] : a[1] = i)[2]
    ELSE 0

\* sensor_data.py:44 and 61
TemperatureAt(n, i, today) == BaseTemperatureAt(n, i, today) + AnomalyAt(n, i)

\* sensor_data.py:45 and 49
HumidityAt(n, i, today) ==
    60000 + (0 - 5) * CycleAt(n, i, today) + 5 * Normal42[n + i]
    + BaseTemperatureAt(n, i, today) \div 5

\* the pressure made to follow the season as the temperature does
PressureAt_Seasonal(n, i, today) ==
    1013000 + CycleAt(n, i, today) + 3 * Normal42[2 * n + i]

\* sensor_data.py:46
PressureAt(n, i, today) == 1013000 + 3 * Normal42[2 * n + i]

\* sensor_data.py:31-63, sensor_data_integration.py:41-73: n daily rows
\* ending at the clock reading
GenerateSimulated(n, today) ==
    Frame("simulated",
          [i \in 1..n |->
              Reading(SimDate(n, i, today), today.time, TemperatureAt(n, i, today),
                      HumidityAt(n, i, today), PressureAt(n, i, today))])

\* sensor_data.py:65-105
FetchApiData_SD(endpoint, key, d, today, resp) ==
    IF ~endpoint \/ ~key
    THEN Yield(GenerateSimulated(d, today), <<"API endpoint or key not configured">>, None)
    ELSE TryExcept(
           IF resp.kind = "no_answer" THEN Yield(Blocked, <<>>, None)
           ELSE IF resp.kind = "exception" THEN Yield(Raised, <<>>, None)
           ELSE IF resp.status = 200 /\ resp.body = "not_json" THEN Yield(Raised, <<>>, None)
           ELSE IF resp.status = 200 /\ resp.body = "ok" /\ resp.n > 0
                THEN Yield(Frame("api", PayloadRows(resp.n, resp.order, today, resp.humidity)), <<>>,
                           Got(PayloadRows(resp.n, resp.order, today, resp.humidity)))
           ELSE Yield(GenerateSimulated(d, today), <<"API request failed">>,
                      IF resp.status = 200 THEN Got(<<>>) ELSE None),
           Yield(GenerateSimulated(d, today), <<"Error fetching API data">>, None))

\* sensor_data_integration.py:147: max(min(h, 100), 0)
ClampHumidity(h) == IF h > 100000 THEN 100000 ELSE IF h < 0 THEN 0 ELSE h

\* sensor_data_integration.py:137-149: the row made up for i days ago from
\* the current conditions and the random draws of that row
HistoricalRow(i, today, humidity, draw) ==
    Reading(today.day - i, today.time,
            20000 + draw.temperature,
            ClampHumidity(humidity + draw.humidity),
            1013000 + draw.pressure)

\* sensor_data_integration.py:97-164
FetchOpenWeatherMap(d, today, resp, draws) ==
    IF resp.kind = "no_answer" THEN Yield(Blocked, <<>>, None)
    ELSE IF resp.kind = "exception" THEN Yield(Raised, <<>>, None)
    ELSE IF resp.status = 200
         THEN IF resp.body # "ok" THEN Yield(Raised, <<>>, None)
              ELSE Yield(Frame("api",
                               SortByDate([i \in 1..d |->
                                   HistoricalRow(i - 1, today, resp.humidity, draws[i])])),
                         <<"Current conditions">>, None)
         ELSE Yield(GenerateSimulated(d, today), <<"Error calling OpenWeatherMap API">>, None)

\* sensor_data_integration.py:166-217
FetchVisualCrossing(d, today, resp) ==
    IF resp.kind = "no_answer" THEN Yield(Blocked, <<>>, None)
    ELSE IF resp.kind = "exception" THEN Yield(Raised, <<>>, None)
    ELSE IF resp.status = 200
         THEN IF resp.body = "not_json" THEN Yield(Raised, <<>>, None)
              ELSE IF resp.body = "no_key" THEN Yield(Frame("api", <<>>), <<>>, Got(<<>>))
              ELSE Yield(Frame("api", PayloadRows(resp.n, resp.order, today, resp.humidity)), <<>>,
                         Got(PayloadRows(resp.n, resp.order, today, resp.humidity)))
         ELSE Yield(GenerateSimulated(d, today), <<"Error calling Visual Crossing API">>, None)

\* sensor_data_integration.py:219-286
FetchThingSpeak(channel, d, today, resp) ==
    IF ~channel
    THEN Yield(GenerateSimulated(d, today), <<"ThingSpeak channel ID not found">>, None)
    ELSE IF resp.kind = "no_answer" THEN Yield(Blocked, <<>>, None)
    ELSE IF resp.kind = "exception" THEN Yield(Raised, <<>>, None)
    ELSE IF resp.status = 200
         THEN IF resp.body = "not_json" THEN Yield(Raised, <<>>, None)
              ELSE IF resp.body = "no_key" \/ resp.n = 0
                   THEN Yield(GenerateSimulated(d, today), <<"No data found">>, Got(<<>>))
              ELSE Yield(Frame("api", PayloadRows(resp.n, resp.order, today, resp.humidity)), <<>>,
                         Got(PayloadRows(resp.n, resp.order, today, resp.humidity)))
         ELSE Yield(GenerateSimulated(d, today), <<"Error calling ThingSpeak API">>, None)

\* sensor_data_integration.py:75-95
FetchApiData_SDI(key, type, channel, d, today, resp, draws) ==
    IF ~key
    THEN Yield(GenerateSimulated(d, today), <<"API key not configured">>, None)
    ELSE TryExcept(
           IF type = "openweathermap" THEN FetchOpenWeatherMap(d, today, resp, draws)
           ELSE IF type = "visualcrossing" THEN FetchVisualCrossing(d, today, resp)
           ELSE IF type = "thingspeak" THEN FetchThingSpeak(channel, d, today, resp)
           ELSE Yield(GenerateSimulated(d, today), <<"Unknown API type">>, None),
           Yield(GenerateSimulated(d, today), <<"Error fetching API data">>, None))

\* sensor_data.py:107-123, sensor_data_integration.py:288-304
ReadFileData(today, file) ==
    TryExcept(
      IF file.kind = "table"
      THEN Yield(Frame("file", PayloadRows(file.n, file.order, today, file.humidity)), <<>>,
                 Got(PayloadRows(file.n, file.order, today, file.humidity)))
      ELSE IF file.kind = "unreadable" THEN Yield(Raised, <<>>, None)
      ELSE Yield(GenerateSimulated(DefaultDays, today), <<"Data file not found">>, None),
      Yield(GenerateSimulated(DefaultDays, today), <<"Error reading file data">>, None))

\* sensor_data.py:19-29
GetSensorData_SD(source, endpoint, key, d, today, resp, file) ==
    IF source = "simulated" THEN Yield(GenerateSimulated(d, today), <<>>, None)
    ELSE IF source = "api" THEN FetchApiData_SD(endpoint, key, d, today, resp)
    ELSE IF source = "file" THEN ReadFileData(today, file)
    ELSE Yield(GenerateSimulated(d, today), <<>>, None)

\* sensor_data_integration.py:24-39
GetSensorData_SDI(source, key, type, channel, d, today, resp, file, draws) ==
    IF source = "simulated" THEN Yield(GenerateSimulated(d, today), <<>>, None)
    ELSE IF source = "api" THEN FetchApiData_SDI(key, type, channel, d, today, resp, draws)
    ELSE IF source = "file" THEN ReadFileData(today, file)
    ELSE IF source = "firebase"
         THEN Yield(GenerateSimulated(d, today),
                    <<"Firebase data source selected, but returning simulated data">>, None)
    ELSE Yield(GenerateSimulated(d, today), <<>>, None)

(***************************************************************************)
(* Components at rest.                                                     *)
(***************************************************************************)
IdleSave ==
    /\ db = "None"
    /\ data = [kind |-> "None", rows |-> <<>>]
    /\ max_retries = 0
    /\ batch_size = 1
    /\ data_dict = <<>>
    /\ retry = 0
    /\ batch_num = 0
    /\ pc_save = "idle"
    /\ ret = "pending"
    /\ store = <<>>
    /\ commits = <<>>
    /\ sleeps = <<>>
    /\ batches_created = 0
    /\ data_in = <<>>

IdleML ==
    /\ df = MkSeries(0, {}, 0, {})
    /\ models = [m \in {} |-> 0]
    /\ ml_op = "none"
    /\ ml_arg = 0
    /\ ml_ret = None
    /\ rerun = FALSE
    /\ runs_agree = TRUE

IdleAcq ==
    /\ sdm_module = "sensor_data"
    /\ data_source = "simulated"
    /\ api_endpoint = FALSE
    /\ api_key = FALSE
    /\ api_type = "openweathermap"
    /\ channel_id = FALSE
    /\ days = 0
    /\ now = [day |-> 0, time |-> 0]
    /\ acq_pc = "idle"
    /\ acq_ret = None
    /\ fetched = None
    /\ log = <<>>

IdleSim ==
    /\ sim_ret = None
    /\ sim_at = None
    /\ sim_prev = None
    /\ sim_prev_at = None

IdleApp ==
    /\ sensor_manager = [data_source |-> "simulated", api_endpoint |-> FALSE,
                         api_key |-> FALSE]
    /\ prediction_model = [m \in {} |-> 0]
    /\ firebase_db = FALSE
    /\ app_df = None
    /\ prediction_df = None
    /\ clock = [day |-> 0, time |-> 0]
    /\ cycle = "none"
    /\ app_pc = "off"
    /\ refresh_ret = None
    /\ refreshes = 0
    /\ steps = <<>>

(***************************************************************************)
(* save_data_to_firebase                                                   *)
(***************************************************************************)
InitSave ==
    /\ db \in {"None", "client"}
    /\ \E n \in 0..MaxRows, shape \in RowShapes, kind \in {"frame", "list", "None"} :
          /\ kind = "None" => n = 0
          /\ data = [kind |-> kind,
                     rows |-> MkRows(n, IF n = 0 THEN "neither" ELSE shape)]
    /\ max_retries \in 0..MaxRetries
    /\ batch_size \in 1..MaxBatch
    /\ data_dict = <<>>
    /\ retry = 0
    /\ batch_num = 0
    /\ pc_save = "call"
    /\ ret = "pending"
    /\ store = <<>>
    /\ commits = <<>>
    /\ sleeps = <<>>
    /\ batches_created = 0
    /\ data_in = data.rows
    /\ IdleML
    /\ IdleAcq
    /\ IdleSim
    /\ IdleApp

\* firebase_config.py:29-49: entry of the call up to the head of the retry loop
save_data_to_firebase ==
    /\ pc_save = "call"
    /\ UNCHANGED <<db, data, max_retries, batch_size, store, commits, sleeps,
                   batches_created, batch_num, retry, data_in>>
    /\ UNCHANGED <<mlVars, acqVars, simVars, appVars>>
    /\ IF db = "None"
       THEN /\ ret' = "False"
            /\ pc_save' = "done"
            /\ UNCHANGED data_dict
       ELSE /\ data_dict' = ToDataDict(data)
            /\ IF NoData(ToDataDict(data))
               THEN ret' = "True" /\ pc_save' = "done"
               ELSE IF max_retries = 0
                    \* range(0): the loop body never runs and the function
                    \* ends without a return statement
                    THEN ret' = "None" /\ pc_save' = "done"
                    ELSE IF TotalBatches(Len(ToDataDict(data)), batch_size) = 0
                         THEN ret' = "True" /\ pc_save' = "done"
                         ELSE ret' = "pending" /\ pc_save' = "batches"

\* firebase_config.py:54-91: one iteration of the batch loop, with the
\* handler of the exception a failed commit raises
commit_batch ==
    /\ pc_save = "batches"
    /\ LET n     == Len(data_dict)
           total == TotalBatches(n, batch_size)
           dd    == StampBatch(data_dict, batch_num, batch_size)
           items == BatchItems(dd, batch_num, batch_size)
       IN  /\ data_dict' = dd
           /\ data' = IF data.kind = "list" THEN [data EXCEPT !.rows = dd] ELSE data
           /\ batches_created' = batches_created + 1
           /\ \E ok \in BOOLEAN :
                /\ commits' = Append(commits,
                                 [batch_num |-> batch_num, retry |-> retry, ok |-> ok])
                /\ IF ok
                   THEN /\ store' = Append(store, items)
                        /\ retry' = retry
                        /\ IF PaceAfter(batch_num, total)
                           THEN sleeps' = Append(sleeps, PaceDelayMs)
                           ELSE sleeps' = sleeps
                        /\ IF batch_num + 1 < total
                           THEN /\ batch_num' = batch_num + 1
                                /\ UNCHANGED <<pc_save, ret>>
                           ELSE /\ batch_num' = batch_num
                                /\ pc_save' = "done"
                                /\ ret' = "True"
                   ELSE /\ store' = store
                        /\ IF MoreRetries(retry, max_retries)
                           THEN /\ sleeps' = Append(sleeps, WaitTime(retry))
                                /\ IF retry + 1 < max_retries
                                   THEN /\ retry' = retry + 1
                                        /\ batch_num' = 0
                                        /\ UNCHANGED <<pc_save, ret>>
                                   ELSE \* the retry loop is exhausted
                                        /\ UNCHANGED <<retry, batch_num>>
                                        /\ pc_save' = "done"
                                        /\ ret' = "None"
                           ELSE /\ UNCHANGED <<sleeps, retry, batch_num>>
                                /\ pc_save' = "done"
                                /\ ret' = "False"
    /\ UNCHANGED <<db, max_retries, batch_size, data_in>>
    /\ UNCHANGED <<mlVars, acqVars, simVars, appVars>>

NextSave ==
    \/ save_data_to_firebase
    \/ commit_batch

SpecSave == InitSave /\ [][NextSave]_vars

(***************************************************************************)
(* PredictionModel: the methods called, in any order, on the series held   *)
(* by the caller; the caller replaces the series by a newly acquired one.  *)
(***************************************************************************)
InitML ==
    /\ df \in SeriesSet
    /\ models = [m \in {} |-> 0]
    /\ ml_op = "none"
    /\ ml_arg = 0
    /\ ml_ret = None
    /\ rerun = FALSE
    /\ runs_agree = TRUE
    /\ IdleSave
    /\ IdleAcq
    /\ IdleSim
    /\ IdleApp

\* app.py:386: df = sensor_manager.get_sensor_data(days=100), in a refresh
\* that follows a training.  Taken while no model held is stale: replacing
\* the series again leads to the same series and models (Aged is idempotent
\* and every set of metrics is the column set of some series).
new_series ==
    /\ ml_op = "train_models"
    /\ \A m \in DOMAIN models : ~models[m].stale
    /\ df' \in SeriesSet
    /\ models' = Aged(models)
    /\ ml_op' = "none"
    /\ ml_arg' = 0
    /\ ml_ret' = None
    /\ rerun' = FALSE
    /\ UNCHANGED runs_agree
    /\ UNCHANGED <<saveVars, acqVars, simVars, appVars>>

\* ml_model.py:15-33
preprocess_data ==
    /\ ml_op' = "preprocess_data"
    /\ ml_arg' = 0
    /\ ml_ret' = Preprocess(df)
    /\ rerun' = FALSE
    /\ UNCHANGED <<df, models, runs_agree>>
    /\ UNCHANGED <<saveVars, acqVars, simVars, appVars>>

\* ml_model.py:35-59
train_models ==
    /\ ml_op' = "train_models"
    /\ ml_arg' = 0
    /\ rerun' = FALSE
    /\ UNCHANGED runs_agree
    /\ IF TrainRaises(Preprocess(df))
       THEN /\ ml_ret' = [kind |-> "raise", error |-> "ValueError"]
            /\ UNCHANGED models
       ELSE /\ ml_ret' = None
            /\ models' = TrainedModels(models, Preprocess(df))
    /\ UNCHANGED df
    /\ UNCHANGED <<saveVars, acqVars, simVars, appVars>>

\* ml_model.py:61-102
predict_next_values ==
    \E days_ahead \in 1..MaxHorizon :
        /\ ml_op' = "predict_next_values"
        /\ ml_arg' = days_ahead
        /\ ml_ret' = PredictNextValues(df, models, days_ahead)
        /\ rerun' = (ml_op = "predict_next_values" /\ ml_arg = days_ahead)
        /\ runs_agree' = (runs_agree /\ (rerun' => ml_ret' = ml_ret))
        /\ UNCHANGED <<df, models>>
        /\ UNCHANGED <<saveVars, acqVars, simVars, appVars>>

NextML ==
    \/ new_series
    \/ preprocess_data
    \/ train_models
    \/ predict_next_values

SpecML == InitML /\ [][NextML]_vars

(***************************************************************************)
(* SensorDataManager.get_sensor_data, on a manager of either module, with  *)
(* the environment (configuration, backend, data file) chosen freely.      *)
(***************************************************************************)
InitAcq ==
    /\ sdm_module \in {"sensor_data", "sensor_data_integration"}
    /\ data_source \in Sources
    /\ api_endpoint \in BOOLEAN
    /\ api_key \in BOOLEAN
    /\ api_type \in ApiTypes
    /\ channel_id \in BOOLEAN
    /\ days \in 0..MaxDays
    /\ now \in NowDates
    /\ acq_pc = "call"
    /\ acq_ret = None
    /\ fetched = None
    /\ log = <<>>
    /\ IdleSave
    /\ IdleML
    /\ IdleSim
    /\ IdleApp

\* sensor_data.py:19-29, sensor_data_integration.py:24-39
get_sensor_data ==
    /\ acq_pc = "call"
    \* the backend, the data file and the random module are consulted on
    \* one path each; elsewhere one outcome stands for all
    /\ \E resp \in (IF data_source = "api" THEN Responses ELSE {[kind |-> "exception"]}),
          file \in (IF data_source = "file" THEN Files
                    ELSE {[kind |-> "missing", n |-> 0, order |-> "asc", humidity |-> 0]}),
          draws \in (IF sdm_module = "sensor_data_integration" /\ data_source = "api"
                        /\ api_type = "openweathermap"
                     THEN [1..days -> Variations]
                     ELSE {[i \in 1..days |-> CHOOSE v \in Variations : TRUE]}) :
          LET r == IF sdm_module = "sensor_data"
                   THEN GetSensorData_SD(data_source, api_endpoint, api_key, days, now,
                                         resp, file)
                   ELSE GetSensorData_SDI(data_source, api_key, api_type, channel_id,
                                          days, now, resp, file, draws)
          IN  /\ acq_ret' = (IF r.out = Blocked THEN acq_ret ELSE r.out)
              /\ acq_pc' = (IF r.out = Blocked THEN "blocked" ELSE "done")
              /\ fetched' = r.fetched
              /\ log' = log \o r.log
    /\ UNCHANGED <<sdm_module, data_source, api_endpoint, api_key, api_type, channel_id,
                   days, now>>
    /\ UNCHANGED <<saveVars, mlVars, simVars, appVars>>

NextAcq == get_sensor_data

SpecAcq == InitAcq /\ [][NextAcq]_vars

\* a call that is made runs: the interpreter executes get_sensor_data as far
\* as its requests let it
SpecAcqFair == SpecAcq /\ WF_vars(NextAcq)

(***************************************************************************)
(* _generate_simulated_data called again and again with one day count,     *)
(* while the clock runs.                                                   *)
(***************************************************************************)
InitSim ==
    /\ sdm_module \in {"sensor_data", "sensor_data_integration"}
    /\ data_source = "simulated"
    /\ api_endpoint = FALSE
    /\ api_key = FALSE
    /\ api_type = "openweathermap"
    /\ channel_id = FALSE
    /\ days \in 0..MaxDays
    /\ now \in NowDates
    /\ acq_pc = "sim"
    /\ acq_ret = None
    /\ fetched = None
    /\ log = <<>>
    /\ IdleSim
    /\ IdleSave
    /\ IdleML
    /\ IdleApp

Later(a, b) == b.day > a.day \/ (b.day = a.day /\ b.time > a.time)

\* sensor_data.py:31-63, sensor_data_integration.py:41-73
generate_simulated_data ==
    /\ acq_pc = "sim"
    /\ sim_ret' = GenerateSimulated(days, now)
    /\ sim_at' = now
    /\ sim_prev' = sim_ret
    /\ sim_prev_at' = sim_at
    /\ UNCHANGED <<saveVars, mlVars, acqVars, appVars>>

\* time passes between two calls
clock_advance ==
    /\ acq_pc = "sim"
    /\ \E t \in NowDates : Later(now, t) /\ now' = t
    /\ UNCHANGED <<sdm_module, data_source, api_endpoint, api_key, api_type, channel_id,
                   days, acq_pc, acq_ret, fetched, log>>
    /\ UNCHANGED <<saveVars, mlVars, simVars, appVars>>

NextSim ==
    \/ generate_simulated_data
    \/ clock_advance

SpecSim == InitSim /\ [][NextSim]_vars

(***************************************************************************)
(* app.py: the pipeline run once at module initialisation and again by    *)
(* every refresh_data callback: acquire, train, forecast, persist.  The    *)
(* manager is the one of sensor_data.py (app.py:12).                       *)
(***************************************************************************)
\* the frame as the model sees it: its dates and its three metric columns
SeriesOf(frame) ==
    [cols |-> MetricSet,
     rows |-> [i \in DOMAIN frame.rows |->
                 [date |-> frame.rows[i].date,
                  val  |-> [m \in MetricSet |-> Obs(m, frame.rows[i].date)]]]]

\* app.py:93-98: the values of the data-source selector
SelectorValues == {"simulated", "api", "file", "firebase"}

\* app.py:382-383
Selected(manager, selector) ==
    IF manager.data_source # selector
    THEN [manager EXCEPT !.data_source = selector]
    ELSE manager

\* the persistence run whether or not there is a connection
Connected_Always(client) == TRUE

\* app.py:35, 395: if firebase_db:
Connected(client) == client

\* the persistence moved in front of the training
NextStep_PersistFirst(pc, client) ==
    CASE pc = "acquire"          -> IF Connected(client) THEN "persist_raw" ELSE "train"
      [] pc = "persist_raw"      -> "persist_forecast"
      [] pc = "persist_forecast" -> "train"
      [] pc = "train"            -> "forecast"
      [] pc = "forecast"         -> "finish"

\* app.py:26-44, 386-401: the statement that follows statement pc
NextStep(pc, client) ==
    CASE pc = "acquire"          -> "train"
      [] pc = "train"            -> "forecast"
      [] pc = "forecast"         -> IF Connected(client) THEN "persist_raw" ELSE "finish"
      [] pc = "persist_raw"      -> "persist_forecast"
      [] pc = "persist_forecast" -> "finish"

Step(name, series) == [step |-> name, data |-> series]

\* app.py:18-20: the globals as the module creates them; the pipeline of
\* the initial load starts at its first statement
InitApp ==
    /\ sensor_manager \in [data_source : Sources, api_endpoint : BOOLEAN,
                           api_key : BOOLEAN]
    /\ prediction_model = [m \in {} |-> 0]
    /\ firebase_db \in BOOLEAN
    /\ app_df = None
    /\ prediction_df = None
    /\ clock = [day |-> 200, time |-> 0]
    /\ cycle = "load"
    /\ app_pc = "acquire"
    /\ refresh_ret = None
    /\ refreshes = 0
    /\ steps = <<>>
    /\ IdleSave
    /\ IdleML
    /\ IdleAcq
    /\ IdleSim

\* app.py:378-383: the callback fires (button or selector) once the page is
\* served, also after a callback that raised
refresh_data ==
    /\ app_pc \in {"idle", "failed"}
    /\ refreshes < MaxRefreshes
    /\ \E selector \in SelectorValues :
          sensor_manager' = Selected(sensor_manager, selector)
    /\ cycle' = "refresh"
    /\ app_pc' = "acquire"
    /\ refresh_ret' = None
    /\ refreshes' = refreshes + 1
    /\ steps' = <<>>
    /\ UNCHANGED <<prediction_model, firebase_db, app_df, prediction_df, clock>>
    /\ UNCHANGED <<saveVars, mlVars, acqVars, simVars>>

\* app.py:26, 386: df = sensor_manager.get_sensor_data(days=100)
acquire ==
    /\ app_pc = "acquire"
    /\ \E resp \in (IF sensor_manager.data_source = "api" THEN Responses
                    ELSE {[kind |-> "exception"]}),
          file \in (IF sensor_manager.data_source = "file" THEN Files
                    ELSE {[kind |-> "missing", n |-> 0, order |-> "asc", humidity |-> 0]}) :
          LET r == GetSensorData_SD(sensor_manager.data_source,
                                    sensor_manager.api_endpoint, sensor_manager.api_key,
                                    HistoryDays, clock, resp, file)
          IN  IF r.out = Blocked
              THEN /\ app_pc' = "blocked"
                   /\ UNCHANGED <<app_df, prediction_model, steps>>
              ELSE /\ app_df' = r.out
                   /\ prediction_model' = Aged(prediction_model)
                   /\ steps' = Append(steps, Step("acquire", r.out))
                   /\ app_pc' = NextStep("acquire", firebase_db)
    /\ UNCHANGED <<sensor_manager, firebase_db, prediction_df, clock, cycle,
                   refresh_ret, refreshes>>
    /\ UNCHANGED <<saveVars, mlVars, acqVars, simVars>>

\* app.py:29, 389: prediction_model.train_models(df); an exception ends the
\* module's initialisation, or leaves the callback
train ==
    /\ app_pc = "train"
    /\ LET p == Preprocess(SeriesOf(app_df))
       IN  IF TrainRaises(p)
           THEN /\ app_pc' = (IF cycle = "load" THEN "crashed" ELSE "failed")
                /\ refresh_ret' = (IF cycle = "load" THEN refresh_ret ELSE Raised)
                /\ UNCHANGED <<prediction_model, steps>>
           ELSE /\ prediction_model' = TrainedModels(prediction_model, p)
                /\ steps' = Append(steps, Step("train", None))
                /\ app_pc' = NextStep("train", firebase_db)
                /\ UNCHANGED refresh_ret
    /\ UNCHANGED <<sensor_manager, firebase_db, app_df, prediction_df, clock, cycle,
                   refreshes>>
    /\ UNCHANGED <<saveVars, mlVars, acqVars, simVars>>

\* app.py:32, 392: prediction_df = prediction_model.predict_next_values(df, 7)
forecast ==
    /\ app_pc = "forecast"
    /\ prediction_df' = PredictNextValues(SeriesOf(app_df), prediction_model, DaysAhead)
    /\ steps' = Append(steps, Step("forecast", prediction_df'))
    /\ app_pc' = NextStep("forecast", firebase_db)
    /\ UNCHANGED <<sensor_manager, prediction_model, firebase_db, app_df, clock, cycle,
                   refresh_ret, refreshes>>
    /\ UNCHANGED <<saveVars, mlVars, acqVars, simVars>>

\* app.py:37, 396: save_data_to_firebase(firebase_db, "sensor_data", df); the
\* call returns True or False, which the refresh ignores and the load prints
persist_raw ==
    /\ app_pc = "persist_raw"
    /\ steps' = Append(steps, Step("persist_raw", app_df))
    /\ app_pc' = NextStep("persist_raw", firebase_db)
    /\ UNCHANGED <<sensor_manager, prediction_model, firebase_db, app_df, prediction_df,
                   clock, cycle, refresh_ret, refreshes>>
    /\ UNCHANGED <<saveVars, mlVars, acqVars, simVars>>

\* app.py:41, 397: save_data_to_firebase(firebase_db, "predictions", prediction_df)
persist_forecast ==
    /\ app_pc = "persist_forecast"
    /\ steps' = Append(steps, Step("persist_forecast", prediction_df))
    /\ app_pc' = NextStep("persist_forecast", firebase_db)
    /\ UNCHANGED <<sensor_manager, prediction_model, firebase_db, app_df, prediction_df,
                   clock, cycle, refresh_ret, refreshes>>
    /\ UNCHANGED <<saveVars, mlVars, acqVars, simVars>>

\* app.py:400-401: the status and the new maximum date returned; the
\* initial load ends here with the page being served
finish ==
    /\ app_pc = "finish"
    /\ app_pc' = "idle"
    /\ refresh_ret' = (IF cycle = "refresh"
                       THEN [kind |-> "Data refreshed",
                             max_date |-> MaxDate(SeriesOf(app_df))]
                       ELSE refresh_ret)
    /\ UNCHANGED <<sensor_manager, prediction_model, firebase_db, app_df, prediction_df,
                   clock, cycle, refreshes, steps>>
    /\ UNCHANGED <<saveVars, mlVars, acqVars, simVars>>

\* days pass between two cycles
time_passes ==
    /\ app_pc \in {"idle", "failed"}
    /\ \E t \in NowDates : t.day > clock.day /\ t.time = clock.time /\ clock' = t
    /\ UNCHANGED <<sensor_manager, prediction_model, firebase_db, app_df, prediction_df,
                   cycle, app_pc, refresh_ret, refreshes, steps>>
    /\ UNCHANGED <<saveVars, mlVars, acqVars, simVars>>

NextApp ==
    \/ refresh_data
    \/ acquire
    \/ train
    \/ forecast
    \/ persist_raw
    \/ persist_forecast
    \/ finish
    \/ time_passes

SpecApp == InitApp /\ [][NextApp]_vars

(***************************************************************************)
(* save_data_to_firebase called on its own, with or without a connection,  *)
(* beside the pipeline of app.py.                                          *)
(***************************************************************************)
InitSaveApp == InitSave \/ InitApp

NextSaveApp == NextSave \/ NextApp

SpecSaveApp == InitSaveApp /\ [][NextSaveApp]_vars

(***************************************************************************)
(* Observations on a finished call of save_data_to_firebase.               *)
(***************************************************************************)
NRows == Len(data.rows)

CeilDiv(n, b) == IF n % b = 0 THEN n \div b ELSE (n \div b) + 1

AttemptsOn(k) == Cardinality({i \in DOMAIN commits : commits[i].batch_num = k})

FailsOn(k) ==
    Cardinality({i \in DOMAIN commits : commits[i].batch_num = k /\ ~commits[i].ok})

IdsOf(docs) == [i \in DOMAIN docs |-> docs[i].id]

\* ids of the rows k*b .. min((k+1)*b, n)-1
ExpectedIds(k) ==
    LET lo == k * batch_size
        hi == IF (k + 1) * batch_size <= NRows THEN (k + 1) * batch_size ELSE NRows
    IN  [i \in 1..(hi - lo) |-> lo + i - 1]

WrittenIds == IdsOf(Flatten(store))

WrittenCount(id) == CountIn(WrittenIds, id)

Committed(k) == \E s \in DOMAIN store : IdsOf(store[s]) = ExpectedIds(k)

AllCommitsOk == \A i \in DOMAIN commits : commits[i].ok

\* batch k is the one failing batch of the call: every commit of k failed and
\* no commit of another batch did
OnlyFailing(k) ==
    /\ AttemptsOn(k) > 0
    /\ FailsOn(k) = AttemptsOn(k)
    /\ \A j \in 0..(CeilDiv(NRows, batch_size) - 1) : j # k => FailsOn(j) = 0

NoOp == batches_created = 0 /\ commits = <<>> /\ sleeps = <<>> /\ store = <<>>

C3_BatchLayout ==
    (/\ pc_save = "done"
     /\ db = "client"
     /\ max_retries >= 1
     /\ NRows >= 1
     /\ AllCommitsOk)
    => /\ Len(store) = CeilDiv(NRows, batch_size)
       /\ \A k \in 0..(Len(store) - 1) : IdsOf(store[k + 1]) = ExpectedIds(k)
       /\ \A id \in 0..(NRows - 1) : WrittenCount(id) = 1
       /\ ret = "True"

C3_Witness ==
    /\ pc_save = "done"
    /\ AllCommitsOk
    /\ NRows = 3
    /\ batch_size = 2
    /\ Len(store) = 2

\* C4: within one call no input row is written to the store more than once
\* (a batch whose commit succeeded is never committed again).
C4_RowWrittenAtMostOnce ==
    \A id \in 0..(NRows - 1) : WrittenCount(id) <= 1

\* C8 as stated: a finished call on an empty input has created no batch,
\* issued no commit, waited no delay and returned True, whatever the other
\* arguments.
C8_EmptyAlwaysTrue ==
    (pc_save = "done" /\ NRows = 0) => (NoOp /\ ret = "True")

\* C8 amended: a finished call on an empty input has created no batch,
\* issued no commit and waited no delay; it returned True when a database
\* connection was given and False when db is None.
C8_EmptyNoOp ==
    (pc_save = "done" /\ NRows = 0)
    => /\ NoOp
       /\ ret = (IF db = "None" THEN "False" ELSE "True")

C8_Witness ==
    /\ pc_save = "done"
    /\ NRows = 0
    /\ db = "client"
    /\ ret = "True"

(***************************************************************************)
(* Observations on the series held and on the last PredictionModel call.   *)
(***************************************************************************)
\* reading i (1-based) of series d has a value for every metric column
Complete(d, i) == \A m \in d.cols : d.rows[i].val[m].kind = "obs"

\* the readings that are complete and directly follow a complete reading
KeptIdx(d) == {i \in 2..Len(d.rows) : Complete(d, i) /\ Complete(d, i - 1)}

LastKept(d) == CHOOSE i \in KeptIdx(d) : \A j \in KeptIdx(d) : j <= i

LastDate(d) == d.rows[Len(d.rows)].date

\* the last value of metric m that series d holds
LastObserved(d, m) ==
    LET seen == {i \in DOMAIN d.rows : d.rows[i].val[m].kind = "obs"}
    IN  d.rows[CHOOSE i \in seen : \A j \in seen : j <= i].val[m]

\* the lag feature handed to the model of metric m for horizon day i
LagInput(m, i) == ml_ret.rows[i].val[m].features.lag1

\* the returned forecast has days_ahead rows, row k dated k days after the
\* last date of the series, a prediction for every tracked metric in each
GoodForecast ==
    /\ ml_ret.kind = "frame"
    /\ Len(ml_ret.rows) = ml_arg
    /\ \A k \in 1..ml_arg :
          /\ ml_ret.rows[k].date = LastDate(df) + k
          /\ \A m \in MetricSet :
                /\ m \in ml_ret.cols
                /\ ml_ret.rows[k].val[m].kind = "pred"

LagChain ==
    \A m \in ml_ret.cols : \A i \in 2..Len(ml_ret.rows) :
        LagInput(m, i) = ml_ret.rows[i - 1].val[m]

\* C6 as stated: in a forecast, the lag input of horizon day 1 is the last
\* observed value of the metric in the input series, the lag input of every
\* later day is the prediction of the day before, and a repeated run returns
\* the same forecast.
C6_SeedIsLastObserved ==
    (ml_op = "predict_next_values" /\ ml_ret.kind = "frame")
    => /\ \A m \in ml_ret.cols : LagInput(m, 1) = LastObserved(df, m)
       /\ LagChain
       /\ runs_agree

\* What predict_next_values does instead (C6): the lag input of horizon day 1
\* is the value of the metric in the last reading that is complete and
\* directly follows a complete reading; the lag input of every later day is
\* the prediction of the day before, and a repeated run returns the same
\* forecast.
C6_LagChain ==
    (ml_op = "predict_next_values" /\ ml_ret.kind = "frame")
    => /\ \A m \in ml_ret.cols : LagInput(m, 1) = df.rows[LastKept(df)].val[m]
       /\ LagChain
       /\ runs_agree

C6_Witness ==
    /\ ml_op = "predict_next_values"
    /\ ml_ret.kind = "frame"
    /\ ml_ret.cols = MetricSet
    /\ ml_arg = MaxHorizon
    /\ rerun
    /\ LastKept(df) < Len(df.rows)

Ascending(rows) == \A i \in 1..(Len(rows) - 1) : rows[i].date <= rows[i + 1].date

DatesOf(rows) == [i \in DOMAIN rows |-> rows[i].date]

\* r is the synthetic series of n days ending today
SyntheticSeries(r, n) ==
    /\ r.kind = "frame"
    /\ r.origin = "simulated"
    /\ DatesOf(r.rows) = [i \in 1..n |-> now.day - (n - i)]

\* C1: for every source identifier, day count >= 0 and backend outcome,
\* get_sensor_data returns a series and raises no error.
C1_AcquisitionTotal ==
    acq_pc = "done" => acq_ret.kind = "frame"

C1_Witness ==
    /\ acq_pc = "done"
    /\ data_source = "api"
    /\ api_key
    /\ api_endpoint
    /\ "Error fetching API data" \in Range(log)
    /\ SyntheticSeries(acq_ret, days)

\* C9: when the backend or the file delivered fewer than 2 rows,
\* get_sensor_data returns the synthetic series of the same day count.
C9_ShortResultReplaced ==
    (acq_pc = "done" /\ fetched # None /\ Len(fetched.rows) < 2)
    => SyntheticSeries(acq_ret, days)

\* C10: for a source other than 'file' and d >= 2, the series returned has
\* exactly d rows in ascending date order.
C10_ExactlyDaysSorted ==
    (acq_pc = "done" /\ data_source # "file" /\ days >= 2)
    => /\ acq_ret.kind = "frame"
       /\ Len(acq_ret.rows) = days
       /\ Ascending(acq_ret.rows)

\* C11: with source 'file' and a data file that is missing or cannot be
\* read, get_sensor_data(days) returns the synthetic series of exactly `days`
\* days.
C11_FileFallbackLength ==
    (/\ acq_pc = "done"
     /\ data_source = "file"
     /\ \/ "Data file not found" \in Range(log)
        \/ "Error reading file data" \in Range(log))
    => SyntheticSeries(acq_ret, days)

(***************************************************************************)
(* Further observations on save_data_to_firebase.                          *)
(***************************************************************************)
\* the call ended on a failed commit
Exhausted == pc_save = "done" /\ commits # <<>> /\ ~commits[Len(commits)].ok

\* the batch whose commit failed last
FailedBatch == commits[Len(commits)].batch_num

\* the batch indices an outcome names: the outcomes of the function are the
\* values True, False and None, which carry no index
BatchNamedBy(outcome) ==
    IF outcome \in {"True", "False", "None", "pending"} THEN {} ELSE {outcome.batch}

\* C12: when the call ends on a batch that exhausted its retries, the outcome
\* returned names the index of the batch that failed.
C12_FailedBatchReported ==
    Exhausted => FailedBatch \in BatchNamedBy(ret)

NFails == Cardinality({i \in DOMAIN commits : ~commits[i].ok})

IsBackoff(ms) == ms # PaceDelayMs

\* the waits that follow a failed attempt, in order
Backoffs == SelectSeq(sleeps, IsBackoff)

C14_TimestampStamped ==
    \A s \in DOMAIN store : \A j \in DOMAIN store[s] :
        LET doc == store[s][j]
            row == data_in[doc.id + 1]
        IN  doc.has_date =>
              /\ doc.has_ts
              /\ doc.date = row.date
              /\ ~row.has_ts => doc.timestamp = row.date
              /\ row.has_ts => doc.timestamp = row.timestamp

C14_Witness ==
    /\ pc_save = "done"
    /\ ret = "True"
    /\ Len(store) >= 2
    /\ \A i \in DOMAIN data_in : data_in[i].has_date /\ ~data_in[i].has_ts
    /\ \A s \in DOMAIN store : \A j \in DOMAIN store[s] :
          store[s][j].has_ts /\ store[s][j].timestamp = store[s][j].date

\* C16: every reading of every series get_sensor_data returns has a humidity
\* between 0 and 100.
C16_HumidityInRange ==
    (acq_pc = "done" /\ acq_ret.kind = "frame")
    => \A i \in DOMAIN acq_ret.rows :
          /\ acq_ret.rows[i].humidity >= 0
          /\ acq_ret.rows[i].humidity <= 100000

\* C16 on the synthetic generator alone
C16_SyntheticHumidityInRange ==
    (acq_pc = "done" /\ data_source = "simulated")
    => \A i \in DOMAIN acq_ret.rows :
          /\ acq_ret.rows[i].humidity >= 0
          /\ acq_ret.rows[i].humidity <= 100000

(***************************************************************************)
(* Observations on two successive calls of _generate_simulated_data.       *)
(***************************************************************************)
PressuresOf(rows) == [i \in DOMAIN rows |-> rows[i].pressure]

C17_FeaturesOfOwnReading ==
    ml_op = "preprocess_data" =>
        \A k \in DOMAIN ml_ret.rows :
            LET r == ml_ret.rows[k]
                i == r.idx
            IN  i >= 1 =>
                  /\ r.date = df.rows[i + 1].date
                  /\ r.day_of_year = ((r.date - 1) % 365) + 1
                  /\ r.month \in 1..12
                  /\ r.day >= 1
                  /\ CumDays[r.month] + r.day = r.day_of_year
                  /\ r.day_of_year <= CumDays[r.month + 1]
                  /\ DOMAIN r.lag = df.cols
                  /\ \A m \in df.cols :
                        /\ r.lag[m] = df.rows[i].val[m]
                        /\ r.lag[m] = Obs(m, df.rows[i].date)

C17_Witness ==
    /\ ml_op = "preprocess_data"
    /\ df.cols = MetricSet
    /\ Len(df.rows) = MaxLen
    /\ Len(ml_ret.rows) >= 2
    /\ \E k \in DOMAIN ml_ret.rows :
          /\ ml_ret.rows[k].idx >= 1
          /\ ml_ret.rows[k].day = 1
          /\ ml_ret.rows[k].month = 3

\* C18: preprocess_data on a series of fewer than 2 rows fails with an
\* InsufficientData error; it does not return a feature table.
C18_ShortSeriesRejected ==
    (ml_op = "preprocess_data" /\ Len(df.rows) < 2)
    => ml_ret = [kind |-> "raise", error |-> "InsufficientData"]

\* the forecast of metric m in the result r of predict_next_values
ForecastOf(r, m) ==
    IF r = None THEN <<None>>
    ELSE IF m \in r.cols THEN [i \in DOMAIN r.rows |-> r.rows[i].val[m]]
    ELSE <<NaN>>

\* two series with the same columns and dates and the same values of m
AgreeOn(d1, d2, m) ==
    /\ d1.cols = d2.cols
    /\ m \in d1.cols
    /\ Len(d1.rows) = Len(d2.rows)
    /\ \A i \in DOMAIN d1.rows :
          /\ d1.rows[i].date = d2.rows[i].date
          /\ d1.rows[i].val[m] = d2.rows[i].val[m]

\* C19: the forecast of a metric m is the same for every series that agrees
\* with the series held on the dates and on the values of m, whatever the
\* values of the other metrics (a missing value in the last row included).
C19_MetricsIndependent ==
    ml_op = "predict_next_values" =>
        \A m \in DOMAIN models : \A d2 \in SeriesSet :
            AgreeOn(df, d2, m) =>
                ForecastOf(PredictNextValues(d2, models, ml_arg), m) = ForecastOf(ml_ret, m)

\* C20: predict_next_values called while no model has been trained returns
\* None, the value by which it tells its caller that there is no forecast.
C20_NotTrainedNoForecast ==
    (ml_op = "predict_next_values" /\ DOMAIN models = {}) => ml_ret = None

C20_Witness ==
    /\ ml_op = "predict_next_values"
    /\ DOMAIN models = {}
    /\ df.cols = MetricSet
    /\ KeptIdx(df) # {}
    /\ ml_ret = None

\* C21: after train_models, every model held was fitted on the series of
\* that call: no model fitted on an earlier series is left, also when the new
\* series lacks a metric column or the training stops with an error.
C21_ModelsReplacedWholesale ==
    ml_op = "train_models" => \A m \in DOMAIN models : ~models[m].stale

\* C25 (save_data_to_firebase): when the call has returned, the caller's data
\* has the rows, fields and values it was passed with.
C25_InputUnchanged ==
    pc_save = "done" => data.rows = data_in

\* pass r (0-based) committed every batch of the series
FullPass(r) ==
    \A k \in 0..(CeilDiv(NRows, batch_size) - 1) :
        \E i \in DOMAIN commits :
            commits[i].batch_num = k /\ commits[i].retry = r /\ commits[i].ok

\* C27: for a non-empty series, the call returns True exactly when some pass
\* 1 .. max_retries committed every batch; then every input row is in the
\* store at least once; and the call never makes more than
\* max_retries * ceil(n/b) commit attempts.
C27_TrueIffFullPass ==
    NRows >= 1 =>
        /\ Len(commits) <= max_retries * CeilDiv(NRows, batch_size)
        /\ pc_save = "done" =>
              /\ ret = "True" <=> \E r \in 0..(max_retries - 1) : FullPass(r)
              /\ ret = "True" => \A id \in 0..(NRows - 1) : WrittenCount(id) >= 1

C27_Witness ==
    /\ pc_save = "done"
    /\ ret = "True"
    /\ retry >= 1
    /\ CeilDiv(NRows, batch_size) >= 2
    /\ NRows % batch_size # 0
    /\ FullPass(retry)

\* C28: for every max_retries >= 0 and every non-empty series, the call ends
\* with True or False, never with None.
C28_BooleanOutcome ==
    (pc_save = "done" /\ NRows >= 1) => ret \in {"True", "False"}

\* C26: whenever get_sensor_data returns synthetic data for a source other
\* than 'simulated', it has printed a message before returning.
C26_FallbackAnnounced ==
    (/\ acq_pc = "done"
     /\ data_source # "simulated"
     /\ acq_ret.kind = "frame"
     /\ acq_ret.origin = "simulated")
    => log # <<>>

\* C24: every call of get_sensor_data returns in the end, also when the
\* backend never answers.
C24_AcquisitionTerminates == <>(acq_pc = "done")

(***************************************************************************)
(* Observations on the pipeline of app.py.                                 *)
(***************************************************************************)
\* C22: every refresh cycle that has ended has returned the 'Data refreshed'
\* status with the maximum date of the newly acquired series; none has ended
\* with an exception leaving refresh_data.
C22_RefreshAlwaysAnswers ==
    (cycle = "refresh" /\ app_pc \in {"idle", "failed"})
    => /\ refresh_ret.kind = "Data refreshed"
       /\ refresh_ret.max_date = MaxDate(SeriesOf(app_df))

StepNames == <<"acquire", "train", "forecast", "persist_raw", "persist_forecast">>

\* C23: the steps of a cycle are taken in the order acquire, train, forecast,
\* persist raw, persist forecast; a persistence step is taken only with a
\* database connection; the series persisted are the ones the acquisition
\* and the forecast of the same cycle produced; a cycle that has ended
\* normally has taken all its steps.
C23_StepsInOrder ==
    /\ Len(steps) <= Len(StepNames)
    /\ \A i \in DOMAIN steps : steps[i].step = StepNames[i]
    /\ Len(steps) > 3 => firebase_db
    /\ Len(steps) >= 4 => steps[4].data = steps[1].data /\ steps[4].data = app_df
    /\ Len(steps) >= 5 => steps[5].data = steps[3].data /\ steps[5].data = prediction_df
    /\ app_pc \in {"finish", "idle"} => Len(steps) = (IF firebase_db THEN 5 ELSE 3)

\* C23 witness: a refresh on a later day than the initial load has persisted
\* both of its series
C23_Witness ==
    /\ cycle = "refresh"
    /\ app_pc = "idle"
    /\ clock.day = 308
    /\ Len(steps) = 5
    /\ steps[5].data.kind = "frame"

\* C29: a call of save_data_to_firebase without a connection creates no
\* batch, commits nothing, sleeps never and returns False; without a
\* connection the pipeline takes no persistence step.
C29_NoConnectionNoSave ==
    /\ (pc_save = "done" /\ db = "None")
       => (batches_created = 0 /\ commits = <<>> /\ sleeps = <<>> /\ ret = "False")
    /\ ~firebase_db
       => \A i \in DOMAIN steps : steps[i].step \notin {"persist_raw", "persist_forecast"}

\* C29 witness: a call with rows to save and no connection has returned
C29_Witness ==
    /\ pc_save = "done"
    /\ db = "None"
    /\ NRows >= 1
    /\ ret = "False"

\* C30: whenever the page can read the globals (the load or a refresh has
\* ended, normally or with an exception) and the series held has rows, the
\* forecast held starts one day after the latest date of the series held.
C30_ForecastFollowsHeldSeries ==
    (app_pc \in {"idle", "failed"} /\ app_df.rows # <<>>)
    => /\ prediction_df # None
       /\ prediction_df.rows[1].date = MaxDate(SeriesOf(app_df)) + 1

====
